---- MODULE Spec2Model ----
(***************************************************************************)
(* dottor: synchronisation of per-application configuration trees between *)
(* a dotfiles repository and the live system (src/main.rs).               *)
(*                                                                         *)
(* Paths and glob patterns are sequences of one-character strings.  The   *)
(* file system is a function from the absolute paths of the existing      *)
(* files to their contents, plus the set of the existing directories.     *)
(***************************************************************************)
EXTENDS Naturals, Sequences, FiniteSets, TLC

VARIABLES
    os,           \* env::consts::OS of the build
    structure,    \* Structure.configs: configuration name -> Configuration
    readdir,      \* the order in which the OS lists directory entries
    unreadable,   \* directories whose listing fails
    files,        \* absolute path of each existing file -> its content
    dirs,         \* absolute paths of the existing directories
    pc,           \* "idle", "deploy_all", "pull", "exited"
    cmd,          \* the invocation being run, or the last one
    remaining,    \* deploy without a name: configurations not yet visited
    candidates,   \* config_pull: enumerated paths not yet visited
    enumerated,   \* config_pull: the whole result of get_paths_in
    result,       \* what the invocation returned
    attempted,    \* deploy_to calls of this invocation, with their results
    copies,       \* file copies performed by this invocation
    shown,        \* previews printed by config_pull
    prompts,      \* confirmations asked by config_pull, with the answers
    reports,      \* "Could not deploy config" lines printed by deploy
    calls,        \* calls into config::create_config / config::delete_config
    history       \* summaries of the finished invocations of the session

vars == <<os, structure, readdir, unreadable, files, dirs, pc, cmd, remaining,
          candidates, enumerated, result, attempted, copies, shown, prompts,
          reports, calls, history>>

env == <<os, structure, readdir, unreadable>>

-----------------------------------------------------------------------------
(* Paths *)

\* The bound of the model: how many files the live directories hold at most
\* when the session starts.
MaxLiveFiles == 2

Sep == <<"/">>

\* The working directory of the program: the root of the dotfiles repository.
Cwd == <<"/", "r">>

\* The home directory "~" stands for.
Home == <<"/", "h">>

\* config::CONFIG_PATH, the per-configuration metadata file.
CONFIG_PATH == <<"d", "o", "t", "c", "o", "n", "f", "i", "g", ".", "t", "o", "m", "l">>

\* shellexpand::tilde: a leading "~" becomes the home directory.
Tilde(p) ==
    IF Len(p) >= 1 /\ p[1] = "~" /\ (Len(p) = 1 \/ p[2] = "/")
    THEN Home \o SubSeq(p, 2, Len(p))
    ELSE p

\* PathAbs::new: a relative path is resolved against the working directory.
PathAbsNew(p) == IF Len(p) >= 1 /\ p[1] = "/" THEN p ELSE Cwd \o Sep \o p

\* PathOps::concat
Concat(dir, rel) == dir \o Sep \o rel

IsUnder(p, dir) ==
    /\ Len(p) > Len(dir) + 1
    /\ SubSeq(p, 1, Len(dir) + 1) = dir \o Sep

\* Path::strip_prefix on a path under dir.
StripPrefix(p, dir) == SubSeq(p, Len(dir) + 2, Len(p))

SlashPositions(p) == {i \in 1..Len(p) : p[i] = "/"}

LastSlash(p) == CHOOSE i \in SlashPositions(p) : \A j \in SlashPositions(p) : j <= i

\* Path::parent of an absolute path below the file system root.
Parent(p) == SubSeq(p, 1, LastSlash(p) - 1)

\* The directory and all its ancestors below the file system root.
Ancestors(p) == {SubSeq(p, 1, i - 1) : i \in {j \in SlashPositions(p) : j > 1}} \cup {p}

\* PathDir::create_all
CreateAll(ds, p) == ds \cup Ancestors(p)

-----------------------------------------------------------------------------
(* Glob patterns (globset, default options: "*" also matches "/") *)

\* Glob::new fails on a character class that is never closed.
GlobNewOk(pat) ==
    \A i \in 1..Len(pat) : pat[i] = "[" => \E j \in (i + 2)..Len(pat) : pat[j] = "]"

IsRecursiveSep(pat, i) ==
    /\ i + 3 <= Len(pat)
    /\ SubSeq(pat, i, i + 3) = <<"/", "*", "*", "/">>

\* The "]" that closes the character class opened at i, or 0.
ClassEnd(pat, i) ==
    LET ends == {j \in (i + 2)..Len(pat) : pat[j] = "]"}
    IN  IF ends = {} THEN 0 ELSE CHOOSE j \in ends : \A k \in ends : j <= k

\* A compiled glob matches the whole path: "?" one character, "*" any run of
\* characters, "/**/" one separator or any run of whole components, "[..]"
\* one of the listed characters.
RECURSIVE MatchFrom(_, _, _, _)
MatchFrom(pat, i, s, j) ==
    IF i > Len(pat) THEN j > Len(s)
    ELSE IF IsRecursiveSep(pat, i) THEN
        /\ j <= Len(s)
        /\ s[j] = "/"
        /\ \/ MatchFrom(pat, i + 4, s, j + 1)
           \/ \E k \in (j + 1)..Len(s) : s[k] = "/" /\ MatchFrom(pat, i + 4, s, k + 1)
    ELSE IF pat[i] = "*" THEN \E k \in j..(Len(s) + 1) : MatchFrom(pat, i + 1, s, k)
    ELSE IF pat[i] = "?" THEN j <= Len(s) /\ MatchFrom(pat, i + 1, s, j + 1)
    ELSE IF pat[i] = "[" /\ ClassEnd(pat, i) > 0 THEN
        /\ j <= Len(s)
        /\ \E k \in (i + 1)..(ClassEnd(pat, i) - 1) : pat[k] = s[j]
        /\ MatchFrom(pat, ClassEnd(pat, i) + 1, s, j + 1)
    ELSE j <= Len(s) /\ s[j] = pat[i] /\ MatchFrom(pat, i + 1, s, j + 1)

\* GlobMatcher::is_match
GlobIsMatch(pat, s) == MatchFrom(pat, 1, s, 1)

\* GlobSet::is_match: some pattern of the set matches.
GlobSetIsMatch(pats, s) == \E i \in 1..Len(pats) : GlobIsMatch(pats[i], s)

-----------------------------------------------------------------------------
(* The file system *)

Some(x) == <<x>>
None == <<>>
IsSome(o) == o # <<>>
UnwrapOr(o, d) == IF o # <<>> THEN o[1] ELSE d

FileSystem(fl, ds) == [files |-> fl, dirs |-> ds]

IsFile(fsys, p) == p \in DOMAIN fsys.files
IsDir(fsys, p) == p \in fsys.dirs

\* PathDir::list: the entries of a directory, in the order the OS yields them.
DirEntries(fsys, dir) ==
    LET all == [i \in 1..Len(readdir) |-> Concat(dir, readdir[i])]
        Exists(p) == IsFile(fsys, p) \/ IsDir(fsys, p)
    IN  SelectSeq(all, Exists)

\* list_dir: the files below dir, depth first; the listing of any directory
\* that fails makes the whole call fail.
RECURSIVE list_dir(_, _, _)
RECURSIVE ListEntries(_, _, _, _)
ListEntries(fsys, glob, entries, i) ==
    IF i > Len(entries) THEN [ok |-> TRUE, paths |-> <<>>]
    ELSE
        LET value == entries[i]
            here == IF IsDir(fsys, value) THEN list_dir(fsys, glob, value)
                    ELSE IF GlobIsMatch(glob, value)
                         THEN [ok |-> TRUE, paths |-> <<value>>]
                         ELSE [ok |-> TRUE, paths |-> <<>>]
        IN  IF ~here.ok THEN [ok |-> FALSE, paths |-> <<>>]
            ELSE LET rest == ListEntries(fsys, glob, entries, i + 1)
                 IN  IF ~rest.ok THEN [ok |-> FALSE, paths |-> <<>>]
                     ELSE [ok |-> TRUE, paths |-> here.paths \o rest.paths]

list_dir(fsys, glob, dir) ==
    IF dir \in unreadable THEN [ok |-> FALSE, paths |-> <<>>]
    ELSE ListEntries(fsys, glob, DirEntries(fsys, dir), 1)

\* get_paths_in: the glob is the pattern joined to the directory.
get_paths_in(fsys, dir, pattern) == list_dir(fsys, Concat(dir, pattern), dir)

EverythingBelow == <<"*", "*", "/", "*">>

\* io_util::check_dir_null_or_empty: the directory is absent or has no entry.
check_dir_null_or_empty(fsys, p) ==
    \/ ~IsDir(fsys, p)
    \/ /\ \A f \in DOMAIN fsys.files : Parent(f) # p
       /\ \A d \in fsys.dirs : d = p \/ Parent(d) # p

\* A copy that creates the destination and loses the content.
CopyFileTruncating(fsys, from, to) ==
    [files |-> [p \in DOMAIN fsys.files \cup {to} |->
                   IF p = to THEN [text |-> TRUE, lines |-> <<>>] ELSE fsys.files[p]],
     dirs  |-> fsys.dirs \cup Ancestors(Parent(to))]

\* PathFile::copy after PathDir::create_all of the parent: the destination
\* takes the content of the source, whether or not it existed.
CopyFile(fsys, from, to) ==
    [files |-> [p \in DOMAIN fsys.files \cup {to} |->
                   IF p = to THEN fsys.files[from] ELSE fsys.files[p]],
     dirs  |-> CreateAll(fsys.dirs, Parent(to))]

-----------------------------------------------------------------------------
(* File contents and the line diff of the pull preview *)

Text(lines) == [text |-> TRUE, lines |-> lines]
Binary == [text |-> FALSE, lines |-> <<>>]

\* FileRead::read_string succeeds on text only.
ReadsAsString(c) == c.text

Min(a, b) == IF a <= b THEN a ELSE b

CommonPrefix(old, new) ==
    LET n == Min(Len(old), Len(new))
        same == {k \in 0..n : \A i \in 1..k : old[i] = new[i]}
    IN  CHOOSE k \in same : \A j \in same : j <= k

CommonSuffix(old, new, pre) ==
    LET n == Min(Len(old), Len(new)) - pre
        same == {k \in 0..n : \A i \in 1..k : old[Len(old) - i + 1] = new[Len(new) - i + 1]}
    IN  CHOOSE k \in same : \A j \in same : j <= k

\* TextDiff::from_lines: the equal head, the changed middle, the equal tail.
DiffOps(old, new) ==
    LET pre == CommonPrefix(old, new)
        suf == CommonSuffix(old, new, pre)
        del == Len(old) - pre - suf
        ins == Len(new) - pre - suf
    IN  (IF pre > 0 THEN <<[tag |-> "Equal", len |-> pre]>> ELSE <<>>)
        \o (IF del > 0 THEN <<[tag |-> "Delete", len |-> del]>> ELSE <<>>)
        \o (IF ins > 0 THEN <<[tag |-> "Insert", len |-> ins]>> ELSE <<>>)
        \o (IF suf > 0 THEN <<[tag |-> "Equal", len |-> suf]>> ELSE <<>>)

\* TextDiff::grouped_ops: a diff with no change has no group; the one changed
\* region of DiffOps makes one group.
GroupedOps(ops) ==
    IF \A i \in 1..Len(ops) : ops[i].tag = "Equal" THEN <<>> ELSE <<ops>>

\* What config_pull prints for a candidate before it asks.
Preview(fsys, source, path, to) ==
    IF IsFile(fsys, to) THEN
        IF ReadsAsString(fsys.files[path]) /\ ReadsAsString(fsys.files[to])
        THEN [kind |-> "diff",
              groups |-> Len(GroupedOps(DiffOps(fsys.files[to].lines,
                                                fsys.files[path].lines)))]
        ELSE [kind |-> "modified", groups |-> 0]
    ELSE IF IsDir(fsys, source) /\ ~IsFile(fsys, to)
         THEN [kind |-> "addition", groups |-> 0]
         ELSE [kind |-> "none", groups |-> 0]

-----------------------------------------------------------------------------
(* deploy_to *)

Ok == "Ok"
Panic == "Panic"                      \* Result::unwrap on an Err: the process aborts
ErrUnsupported == "Operating system is not supported."
ErrNotEmpty == "Directory is not empty."
ErrIo == "I/O error"
ErrPrefix == "could not resolve relative path"
ErrDotconfig == "Trying to overwrite dotconfig.toml configuration file."
ErrNoConfig == "Config does not exist."
ErrExists == "There already exists a config with the name"
ErrNoSuchName == "There is no config with the name"

\* The TargetSpec of the build's OS (deploy_to, config_pull).
DeployTarget(config) ==
    IF os = "windows" THEN Some(config.deploy.windows)
    ELSE IF os = "linux" THEN Some(config.deploy.linux)
    ELSE None

\* A lookup that reads the configuration's target_require_empty only.
RequireEmptyConfigOnly(config, target) == config.deploy.target_require_empty

\* The per-target target_require_empty when given, else the configuration's.
RequireEmpty(config, target) ==
    IF IsSome(target.target_require_empty)
    THEN target.target_require_empty[1]
    ELSE config.deploy.target_require_empty

\* The exclude patterns in the order they enter the GlobSetBuilder; ok is
\* whether every Glob::new succeeded.
ExcludePatterns(general, specific) ==
    LET pats == general \o specific
    IN  [ok |-> \A i \in 1..Len(pats) : GlobNewOk(pats[i]), pats |-> pats]

\* The path the deploy loop hands to the exclude set.
DeployMatchPath(from, config_dir) == from

\* A deploy loop that forgets the dotconfig comparison.
DeploySkipsGlobOnly(pats, dotconfig, from, config_dir) ==
    GlobSetIsMatch(pats, DeployMatchPath(from, config_dir))

\* Whether the deploy loop leaves a file out.
DeploySkips(pats, dotconfig, from, config_dir) ==
    GlobSetIsMatch(pats, DeployMatchPath(from, config_dir)) \/ dotconfig = from

\* The copy loop of deploy_to over the enumerated files.
RECURSIVE DeployLoop(_, _, _, _, _, _, _)
DeployLoop(paths, i, pats, dotconfig, config_dir, target_path, acc) ==
    IF i > Len(paths) THEN acc
    ELSE
        LET from == paths[i]
        IN  IF ~IsUnder(from, config_dir)
            THEN [acc EXCEPT !.res = ErrPrefix]
            ELSE
                LET to == Concat(target_path, StripPrefix(from, config_dir))
                    next == IF DeploySkips(pats, dotconfig, from, config_dir) THEN acc
                            ELSE [acc EXCEPT
                                     !.fsys = CopyFile(acc.fsys, from, to),
                                     !.copies = Append(acc.copies, [from |-> from, to |-> to])]
                IN  DeployLoop(paths, i + 1, pats, dotconfig, config_dir, target_path, next)

\* deploy_to(name, config) run on the file system fsys: the result, the file
\* system it leaves and the copies it made.
deploy_to(name, config, fsys) ==
    LET none == [res |-> Ok, fsys |-> fsys, copies |-> <<>>]
        target == DeployTarget(config)
    IN  IF ~IsSome(target) THEN [none EXCEPT !.res = ErrUnsupported]
        ELSE
        LET target_path == PathAbsNew(Tilde(target[1].target))
        IN  IF RequireEmpty(config, target[1]) /\ ~check_dir_null_or_empty(fsys, target_path)
            THEN [none EXCEPT !.res = ErrNotEmpty]
            ELSE
            LET made == [fsys EXCEPT !.dirs = CreateAll(fsys.dirs, target_path)]
                created == [none EXCEPT !.fsys = made]
                config_dir == PathAbsNew(name)
                dotconfig == Concat(config_dir, CONFIG_PATH)
                excl == ExcludePatterns(config.deploy.exclude, target[1].exclude)
                listed == get_paths_in(made, config_dir, EverythingBelow)
            IN  IF ~IsDir(made, config_dir) THEN [created EXCEPT !.res = ErrIo]
                ELSE IF ~IsFile(made, dotconfig) THEN [created EXCEPT !.res = ErrIo]
                ELSE IF ~excl.ok THEN [created EXCEPT !.res = Panic]
                ELSE IF ~listed.ok THEN [created EXCEPT !.res = ErrIo]
                ELSE DeployLoop(listed.paths, 1, excl.pats, dotconfig, config_dir,
                                target_path, created)

-----------------------------------------------------------------------------
(* config_pull *)

\* The PullSpec config_pull reads for the build's OS.
PullFrom(config) ==
    IF os = "windows" THEN Some(config.pull.windows)
    ELSE IF os = "linux" THEN Some(config.pull.windows)
    ELSE None

\* Everything config_pull resolves before its loop: the result so far, the
\* source root, the configuration directory, the exclude set and the
\* enumerated files.
PullResolve(name, fsys) ==
    LET none == [res |-> Ok, from |-> <<>>, config_dir |-> <<>>, pats |-> <<>>,
                 paths |-> <<>>]
    IN  IF name \notin DOMAIN structure THEN [none EXCEPT !.res = ErrNoConfig]
        ELSE
        LET config == structure[name]
            deploy_target == DeployTarget(config)
            pull_from == PullFrom(config)
        IN  IF ~IsSome(deploy_target) THEN [none EXCEPT !.res = ErrUnsupported]
            ELSE
            LET from == PathAbsNew(Tilde(UnwrapOr(pull_from[1].from, deploy_target[1].target)))
                config_dir == PathAbsNew(name)
                excl == ExcludePatterns(config.pull.exclude, pull_from[1].exclude)
                listed == get_paths_in(fsys, from, EverythingBelow)
                here == [none EXCEPT !.from = from, !.config_dir = config_dir,
                                     !.pats = excl.pats]
            IN  IF ~IsDir(fsys, from) THEN [here EXCEPT !.res = ErrIo]
                ELSE IF ~IsDir(fsys, config_dir) THEN [here EXCEPT !.res = ErrIo]
                ELSE IF ~excl.ok THEN [here EXCEPT !.res = Panic]
                ELSE IF ~listed.ok THEN [here EXCEPT !.res = ErrIo]
                ELSE [here EXCEPT !.paths = listed.paths]

\* The path the pull loop hands to the exclude set.
PullMatchPath(path, from) == StripPrefix(path, from)

\* Whether the pull loop passes a candidate over.
PullSkips(pats, path, from) == GlobSetIsMatch(pats, PullMatchPath(path, from))

\* A pull loop without the dotconfig guard.
HitsDotconfigNever(to, dotconfig) == FALSE

\* Whether the destination of a candidate is the configuration's dotconfig.
HitsDotconfig(to, dotconfig) == to = dotconfig

\* A pull loop that copies whatever the answer.
ShouldCopyAlways(answer) == TRUE

\* Whether the candidate is copied, given the answer of prompt_bool.
ShouldCopy(answer) == answer

-----------------------------------------------------------------------------
(* The repository, the live system and the configurations of a session *)

NameC == <<"c">>
NameE == <<"e">>
NameZ == <<"z">>                      \* no configuration has this name

FileA == <<"a">>
FileK == <<"k">>
FileDA == <<"d", "/", "a">>

TargetC == <<"~", "/", "t">>          \* where c is deployed on the build's OS
TargetE == <<"/", "u">>               \* where e is deployed; also a pull source
TargetOther == <<"/", "o">>           \* where c is deployed on the other OS
SourceB == <<"/", "b", "[", "1", "]">> \* a pull source named with brackets

LiveC == PathAbsNew(Tilde(TargetC))

\* Exclude patterns.
PatA == <<"a">>
PatD == <<"d", "/", "*">>
PatAnyA == <<"*", "a">>
PatOpenClass == <<"[">>

\* The order in which the OS lists the entries of a directory.
ReadDirOrders ==
    {<<FileA, <<"d">>, CONFIG_PATH, FileK>>, <<FileK, CONFIG_PATH, <<"d">>, FileA>>}

\* The repository: configurations c and e with their dotconfig.toml.
RepoFiles ==
    (Concat(PathAbsNew(NameC), CONFIG_PATH) :> Text(<<"c">>))
    @@ (Concat(PathAbsNew(NameC), FileA) :> Text(<<"x">>))
    @@ (Concat(PathAbsNew(NameC), FileDA) :> Binary)
    @@ (Concat(PathAbsNew(NameE), CONFIG_PATH) :> Text(<<"e">>))
    @@ (Concat(PathAbsNew(NameE), FileA) :> Text(<<"x">>))

\* What the live directory of c may hold when the session starts.
LiveFiles ==
    (Concat(LiveC, FileA) :> Text(<<"x", "y">>))
    @@ (Concat(LiveC, FileK) :> Text(<<"x">>))
    @@ (Concat(LiveC, CONFIG_PATH) :> Text(<<"l">>))

\* The live directory of e, and the pull source named with brackets.
OtherFiles ==
    (Concat(TargetE, FileK) :> Text(<<"y">>))
    @@ (Concat(SourceB, FileK) :> Text(<<"y">>))

Restrict(f, S) == [x \in S |-> f[x]]

DirsOf(fl) == UNION {Ancestors(Parent(p)) : p \in DOMAIN fl}

TargetSpec(target, exclude, require_empty) ==
    [target |-> target, exclude |-> exclude, target_require_empty |-> require_empty]

PullSpec(from, exclude) == [from |-> from, exclude |-> exclude]

\* The specs of the OS the build is not for.
OtherTarget == TargetSpec(TargetOther, <<PatD>>, None)
OtherPull == PullSpec(None, <<PatD>>)

\* A Configuration whose specs for the OS `sys` are the given ones.
Configuration(sys, require_empty, exclude, target, pull_exclude, pull) ==
    [deploy |-> [target_require_empty |-> require_empty,
                 exclude |-> exclude,
                 windows |-> IF sys = "windows" THEN target ELSE OtherTarget,
                 linux   |-> IF sys = "windows" THEN OtherTarget ELSE target],
     pull   |-> [exclude |-> pull_exclude,
                 windows |-> IF sys = "windows" THEN pull ELSE OtherPull,
                 linux   |-> IF sys = "windows" THEN OtherPull ELSE pull]]

ConfigE(sys) ==
    Configuration(sys, FALSE, <<>>, TargetSpec(TargetE, <<>>, None), <<>>,
                  PullSpec(None, <<>>))

\* Sessions that vary the deploy settings of c.
DeployConfigs(sys) ==
    {Configuration(sys, re, ex, TargetSpec(TargetC, tex, tre), <<>>, PullSpec(None, <<>>)) :
        re \in BOOLEAN,
        ex \in {<<>>, <<PatA>>, <<PatAnyA>>, <<PatOpenClass>>},
        tex \in {<<>>, <<PatD>>, <<PatOpenClass>>},
        tre \in {None, Some(TRUE), Some(FALSE)}}

\* Sessions that vary the pull settings of c.
PullConfigs(sys) ==
    {Configuration(sys, FALSE, <<>>, TargetSpec(TargetC, <<>>, None), pex, PullSpec(from, ex)) :
        pex \in {<<>>, <<PatA>>, <<PatOpenClass>>},
        from \in {None, Some(TargetE), Some(SourceB)},
        ex \in {<<>>, <<CONFIG_PATH>>, <<PatOpenClass>>}}

DefaultConfig(sys) ==
    Configuration(sys, FALSE, <<>>, TargetSpec(TargetC, <<>>, None), <<>>,
                  PullSpec(None, <<>>))

InitEnv ==
    \/ /\ os \in {"windows", "linux"}
       /\ \E c \in DeployConfigs(os) : structure = (NameC :> c) @@ (NameE :> ConfigE(os))
       /\ readdir = <<FileA, <<"d">>, CONFIG_PATH, FileK>>
       /\ unreadable = {}
    \/ /\ os \in {"windows", "linux"}
       /\ \E c \in PullConfigs(os) : structure = (NameC :> c) @@ (NameE :> ConfigE(os))
       /\ readdir \in ReadDirOrders
       /\ unreadable = {}
    \/ /\ os \in {"windows", "linux", "macos"}
       /\ structure = (NameC :> DefaultConfig(os)) @@ (NameE :> ConfigE(os))
       /\ readdir = <<FileA, <<"d">>, CONFIG_PATH, FileK>>
       /\ unreadable \in {{}, {PathAbsNew(NameC)}, {Concat(PathAbsNew(NameC), <<"d">>)}, {LiveC}}

InitFiles ==
    \E live \in SUBSET DOMAIN LiveFiles :
        /\ Cardinality(live) <= MaxLiveFiles
        /\ files = RepoFiles @@ OtherFiles @@ Restrict(LiveFiles, live)
        /\ \E present \in BOOLEAN :
              dirs = DirsOf(files) \cup (IF present THEN Ancestors(LiveC) ELSE {})

Init ==
    /\ InitEnv
    /\ InitFiles
    /\ pc = "idle"
    /\ cmd = [op |-> "none", name |-> None]
    /\ remaining = {}
    /\ candidates = <<>>
    /\ enumerated = <<>>
    /\ result = "none"
    /\ attempted = <<>>
    /\ copies = <<>>
    /\ shown = <<>>
    /\ prompts = <<>>
    /\ reports = <<>>
    /\ calls = <<>>
    /\ history = <<>>

-----------------------------------------------------------------------------
(* The invocations *)

Command(op, name) == [op |-> op, name |-> name]

\* main: one invocation of the program.  A session is one invocation, or a
\* deploy followed by a pull.
Begin(c) ==
    /\ \/ pc = "idle"
       \/ pc = "exited" /\ history = <<>> /\ cmd.op = "deploy" /\ c.op = "pull"
    /\ cmd' = c
    /\ history' = IF pc = "exited"
                  THEN Append(history, [cmd |-> cmd, result |-> result, copies |-> copies])
                  ELSE history

Written(fsys) == /\ files' = fsys.files
                 /\ dirs' = fsys.dirs

Attempt(name, r) == [name |-> name, res |-> r.res, copies |-> r.copies]

\* deploy with a name: deploy_to on that configuration.
DeployNamed(name) ==
    /\ Begin(Command("deploy", Some(name)))
    /\ IF name \in DOMAIN structure
       THEN LET r == deploy_to(name, structure[name], FileSystem(files, dirs))
            IN  /\ Written(r.fsys)
                /\ result' = r.res
                /\ attempted' = <<Attempt(name, r)>>
                /\ copies' = r.copies
       ELSE /\ result' = ErrNoConfig
            /\ attempted' = <<>>
            /\ copies' = <<>>
            /\ UNCHANGED <<files, dirs>>
    /\ pc' = "exited"
    /\ remaining' = {}
    /\ candidates' = <<>>
    /\ enumerated' = <<>>
    /\ shown' = <<>>
    /\ prompts' = <<>>
    /\ reports' = <<>>
    /\ calls' = <<>>
    /\ UNCHANGED env

\* deploy without a name: the loop over structure.configs is entered.
DeployAll ==
    /\ Begin(Command("deploy", None))
    /\ pc' = "deploy_all"
    /\ remaining' = DOMAIN structure
    /\ result' = "none"
    /\ attempted' = <<>>
    /\ copies' = <<>>
    /\ candidates' = <<>>
    /\ enumerated' = <<>>
    /\ shown' = <<>>
    /\ prompts' = <<>>
    /\ reports' = <<>>
    /\ calls' = <<>>
    /\ UNCHANGED <<env, files, dirs>>

\* One iteration of the loop of deploy: deploy_to on the next configuration,
\* its error printed; Ok(()) once the map is exhausted.  The map yields its
\* entries in an order the program does not choose.
DeployAllStep ==
    /\ pc = "deploy_all"
    /\ \E name \in remaining :
          LET r == deploy_to(name, structure[name], FileSystem(files, dirs))
          IN  /\ Written(r.fsys)
              /\ attempted' = Append(attempted, Attempt(name, r))
              /\ copies' = copies \o r.copies
              /\ remaining' = remaining \ {name}
              /\ IF r.res = Panic
                 THEN /\ pc' = "exited"
                      /\ result' = Panic
                      /\ reports' = reports
                 ELSE /\ reports' = IF r.res = Ok THEN reports
                                    ELSE Append(reports, [name |-> name, error |-> r.res])
                      /\ pc' = IF remaining' = {} THEN "exited" ELSE "deploy_all"
                      /\ result' = IF remaining' = {} THEN Ok ELSE "none"
    /\ UNCHANGED <<env, cmd, candidates, enumerated, shown, prompts, calls, history>>

\* config pull: everything before the loop.
PullStart(name) ==
    /\ Begin(Command("pull", Some(name)))
    /\ LET r == PullResolve(name, FileSystem(files, dirs))
       IN  /\ pc' = IF r.res = Ok THEN "pull" ELSE "exited"
           /\ result' = IF r.res = Ok THEN "none" ELSE r.res
           /\ candidates' = r.paths
           /\ enumerated' = r.paths
    /\ remaining' = {}
    /\ attempted' = <<>>
    /\ copies' = <<>>
    /\ shown' = <<>>
    /\ prompts' = <<>>
    /\ reports' = <<>>
    /\ calls' = <<>>
    /\ UNCHANGED <<env, files, dirs>>

\* One iteration of the loop of config_pull on the next enumerated file; the
\* answer is what prompt_bool returns if it is asked.
PullStep ==
    /\ pc = "pull"
    /\ candidates # <<>>
    /\ LET name == cmd.name[1]
           fsys == FileSystem(files, dirs)
           r == PullResolve(name, fsys)
           path == Head(candidates)
           relative == StripPrefix(path, r.from)
           to == Concat(r.config_dir, relative)
           dotconfig == Concat(r.config_dir, CONFIG_PATH)
           preview == Preview(fsys, r.from, path, to)
       IN  IF ~IsUnder(path, r.from) THEN
               /\ pc' = "exited"
               /\ result' = ErrPrefix
               /\ UNCHANGED <<files, dirs, candidates, copies, shown, prompts>>
           ELSE IF PullSkips(r.pats, path, r.from) THEN
               /\ candidates' = Tail(candidates)
               /\ UNCHANGED <<files, dirs, pc, result, copies, shown, prompts>>
           ELSE IF HitsDotconfig(to, dotconfig) THEN
               /\ pc' = "exited"
               /\ result' = ErrDotconfig
               /\ UNCHANGED <<files, dirs, candidates, copies, shown, prompts>>
           ELSE \E answer \in BOOLEAN :
               /\ shown' = IF preview.kind = "none" THEN shown
                           ELSE Append(shown, [path |-> path, to |-> to,
                                               kind |-> preview.kind,
                                               groups |-> preview.groups])
               /\ prompts' = Append(prompts, [path |-> path, to |-> to, answer |-> answer])
               /\ IF ShouldCopy(answer)
                  THEN /\ Written(CopyFile(fsys, path, to))
                       /\ copies' = Append(copies, [from |-> path, to |-> to])
                  ELSE UNCHANGED <<files, dirs, copies>>
               /\ candidates' = Tail(candidates)
               /\ UNCHANGED <<pc, result>>
    /\ UNCHANGED <<env, cmd, remaining, enumerated, attempted, reports, calls, history>>

\* config_pull: the loop is over, Ok(()).
PullDone ==
    /\ pc = "pull"
    /\ candidates = <<>>
    /\ pc' = "exited"
    /\ result' = Ok
    /\ UNCHANGED <<env, files, dirs, cmd, remaining, candidates, enumerated, attempted,
                   copies, shown, prompts, reports, calls, history>>

\* Whether config_create turns the name down.
CreateRefuses(name) == name \in DOMAIN structure

\* Whether config_delete turns the name down.
DeleteRefuses(name) == name \in DOMAIN structure

\* config create / config delete: the check of the name, then the call into
\* the config module.
Manage(op, refuses, error, callee, name) ==
    /\ Begin(Command(op, Some(name)))
    /\ IF refuses
       THEN /\ result' = error
            /\ calls' = <<>>
       ELSE /\ result' = Ok
            /\ calls' = <<[fn |-> callee, name |-> name]>>
    /\ pc' = "exited"
    /\ remaining' = {}
    /\ candidates' = <<>>
    /\ enumerated' = <<>>
    /\ attempted' = <<>>
    /\ copies' = <<>>
    /\ shown' = <<>>
    /\ prompts' = <<>>
    /\ reports' = <<>>
    /\ UNCHANGED <<env, files, dirs>>

ConfigCreate(name) == Manage("create", CreateRefuses(name), ErrExists, "create_config", name)

ConfigDelete(name) == Manage("delete", DeleteRefuses(name), ErrNoSuchName, "delete_config", name)

Names == {NameC, NameZ}

Next ==
    \/ \E name \in Names : DeployNamed(name)
    \/ DeployAll
    \/ DeployAllStep
    \/ \E name \in Names : PullStart(name)
    \/ PullStep
    \/ PullDone
    \/ \E name \in Names : ConfigCreate(name)
    \/ \E name \in Names : ConfigDelete(name)

Spec == Init /\ [][Next]_vars

-----------------------------------------------------------------------------
(* What the claims speak of *)

RecognisedOs == os \in {"windows", "linux"}

\* The TargetSpec and the PullSpec a configuration gives for the build's OS.
OwnTarget(config) == IF os = "windows" THEN config.deploy.windows ELSE config.deploy.linux
OwnPull(config) == IF os = "windows" THEN config.pull.windows ELSE config.pull.linux

DotconfigOf(name) == Concat(PathAbsNew(name), CONFIG_PATH)

Range(seq) == {seq[i] : i \in 1..Len(seq)}

IsDeploy == cmd.op = "deploy"
IsPullOfConfig == cmd.op = "pull" /\ cmd.name[1] \in DOMAIN structure /\ RecognisedOs

\* The source root the running pull enumerates.
PullRoot == PullResolve(cmd.name[1], FileSystem(files, dirs)).from

\* The exclude set the running pull compiled.
PullPats == PullResolve(cmd.name[1], FileSystem(files, dirs)).pats

\* C1: a file whose path relative to the enumeration root matches a
\* configuration-level exclude pattern or one of the build OS's target/pull
\* spec is never copied, by deploy or by pull.
C1_ExcludedNeverCopied ==
    /\ IsDeploy /\ RecognisedOs =>
          \A a \in Range(attempted) : \A cp \in Range(a.copies) :
              LET config == structure[a.name]
              IN  ~GlobSetIsMatch(config.deploy.exclude \o OwnTarget(config).exclude,
                                  StripPrefix(cp.from, PathAbsNew(a.name)))
    /\ IsPullOfConfig =>
          \A cp \in Range(copies) :
              LET config == structure[cmd.name[1]]
              IN  ~GlobSetIsMatch(config.pull.exclude \o OwnPull(config).exclude,
                                  StripPrefix(cp.from, PullRoot))

\* Every copy a deploy of the session has made.
DeployCopies ==
    (IF IsDeploy THEN Range(copies) ELSE {})
    \cup UNION {Range(h.copies) : h \in {x \in Range(history) : x.cmd.op = "deploy"}}

\* C2: deploy never copies the dotconfig.toml of a configuration, whatever
\* the exclude lists are.
C2_DeployNeverCopiesDotconfig ==
    \A cp \in DeployCopies : \A name \in DOMAIN structure : cp.from # DotconfigOf(name)

\* A deploy of c with no exclude pattern at all went through the files of c,
\* dotconfig.toml among them, and copied the others.
C2_Witness ==
    /\ IsDeploy /\ result = Ok
    /\ structure[NameC].deploy.exclude = <<>>
    /\ OwnTarget(structure[NameC]).exclude = <<>>
    /\ DotconfigOf(NameC) \in DOMAIN files
    /\ \E cp \in Range(copies) : IsUnder(cp.from, PathAbsNew(NameC))

\* The candidates config_pull has gone past in its loop.
Visited == Len(enumerated) - Len(candidates)

\* Whether the i-th enumerated file is a candidate that is not excluded and
\* whose relative path is that of dotconfig.toml.
IsProtectedCandidate(i) ==
    /\ ~GlobSetIsMatch(PullPats, StripPrefix(enumerated[i], PullRoot))
    /\ StripPrefix(enumerated[i], PullRoot) = CONFIG_PATH

\* C3: when pull meets a not excluded candidate whose relative path is that
\* of dotconfig.toml it stops there with an error: that candidate and the
\* ones after it are neither asked about nor copied, the dotconfig.toml of
\* the repository keeps its content, and what was copied before stays.
C3_PullAbortsOnDotconfig ==
    IsPullOfConfig /\ pc \in {"pull", "exited"} =>
        /\ \A i \in 1..Len(enumerated) : IsProtectedCandidate(i) =>
              /\ Visited < i
              /\ pc = "exited" => result = ErrDotconfig
              /\ \A j \in i..Len(enumerated) :
                    /\ \A q \in Range(prompts) : q.path # enumerated[j]
                    /\ \A cp \in Range(copies) : cp.from # enumerated[j]
        /\ files[DotconfigOf(cmd.name[1])] = RepoFiles[DotconfigOf(cmd.name[1])]
        /\ \A cp \in Range(copies) : cp.to \in DOMAIN files /\ files[cp.to] = files[cp.from]

\* A pull stopped at dotconfig.toml after it had copied a file, with a
\* candidate left behind it.
C3_Witness ==
    /\ IsPullOfConfig /\ pc = "exited" /\ result = ErrDotconfig
    /\ copies # <<>>
    /\ Len(candidates) > 1

\* What the claim calls the effective target_require_empty.
EffectiveRequireEmpty(config) ==
    IF OwnTarget(config).target_require_empty = None
    THEN config.deploy.target_require_empty
    ELSE OwnTarget(config).target_require_empty[1]

TargetRoot(config) == PathAbsNew(Tilde(OwnTarget(config).target))

\* The target root exists and holds an entry.
TargetNonEmpty(config) ==
    /\ TargetRoot(config) \in dirs
    /\ \/ \E f \in DOMAIN files : Parent(f) = TargetRoot(config)
       \/ \E d \in dirs : d # TargetRoot(config) /\ Parent(d) = TargetRoot(config)

\* A step in which deploy_to ran on one configuration.
C4_Step ==
    Len(attempted') = Len(attempted) + 1 /\ RecognisedOs =>
        LET last == attempted'[Len(attempted')]
            config == structure[last.name]
        IN  /\ EffectiveRequireEmpty(config) /\ TargetNonEmpty(config) =>
                  /\ last.res = ErrNotEmpty
                  /\ files' = files
                  /\ dirs' = dirs
            /\ EffectiveRequireEmpty(config) /\ ~TargetNonEmpty(config) =>
                  last.res # ErrNotEmpty
            /\ ~EffectiveRequireEmpty(config) =>
                  /\ last.res # ErrNotEmpty
                  /\ \A cp \in Range(last.copies) :
                        cp.to \in DOMAIN files' /\ files'[cp.to] = files[cp.from]

\* C4: the target_require_empty in force is the per-target one when given and
\* the configuration's otherwise; when it is true and the target root holds
\* something, deploy_to fails and creates and writes nothing; when it is
\* false, deploy_to is not stopped and its copies overwrite the destinations.
C4_RequireEmptyPrecedence == [][C4_Step]_vars

\* deploy_to refused a target that holds something because of the per-target
\* true, against the configuration's false.
C4_Witness ==
    \E a \in Range(attempted) :
        /\ a.res = ErrNotEmpty
        /\ ~structure[a.name].deploy.target_require_empty
        /\ OwnTarget(structure[a.name]).target_require_empty = Some(TRUE)

\* A step of pull in which the answer was no, and any step of pull that
\* changes a file.
C5_Step ==
    /\ Len(prompts') = Len(prompts) + 1 /\ ~prompts'[Len(prompts')].answer =>
          /\ files' = files
          /\ dirs' = dirs
          /\ pc' = "pull"
          /\ candidates' = Tail(candidates)
    /\ pc = "pull" /\ files' # files =>
          /\ Len(prompts') = Len(prompts) + 1
          /\ prompts'[Len(prompts')].answer
          /\ \A p \in DOMAIN files :
                p # prompts'[Len(prompts')].to => p \in DOMAIN files' /\ files'[p] = files[p]

C5_Inv ==
    IsPullOfConfig =>
        /\ \A cp \in Range(copies) :
              \E q \in Range(prompts) : q.path = cp.from /\ q.to = cp.to /\ q.answer
        /\ pc = "exited" /\ result = Ok =>
              \A i \in 1..Len(enumerated) :
                  ~GlobSetIsMatch(PullPats, StripPrefix(enumerated[i], PullRoot)) =>
                      \E q \in Range(prompts) : q.path = enumerated[i]

\* C5: a no to the confirmation of a candidate leaves the repository as it
\* is and the loop of pull goes on to the next candidate, so that every
\* candidate that is not excluded is asked about; pull writes a file of the
\* repository only on a yes for that candidate.
C5_DeclineLeavesUnchanged == []C5_Inv /\ [][C5_Step]_vars

\* A candidate that differs from its destination was declined, and a later
\* candidate was asked about.
C5_Witness ==
    \E i \in 1..Len(prompts) :
        /\ ~prompts[i].answer
        /\ prompts[i].to \in DOMAIN files
        /\ files[prompts[i].to] # files[prompts[i].path]
        /\ i < Len(prompts)

\* A pull of a configuration right after a deploy.
DeployThenPull ==
    /\ IsPullOfConfig
    /\ history # <<>>
    /\ history[1].cmd.op = "deploy"

\* The preview is of a file the deploy before has just copied there.
JustDeployed(s) == [from |-> s.to, to |-> s.path] \in Range(history[1].copies)

\* C6 as stated: after a deploy, the pull of the configuration shows no
\* addition, no modified marker and no change group, for any candidate.
C6_PullAfterDeployShowsNothing ==
    DeployThenPull /\ history[1].result = Ok =>
        \A s \in Range(shown) : s.kind = "diff" /\ s.groups = 0

\* C6 amended: after a deploy, pull shows for a file that the deploy has
\* just copied no addition and, when both copies read as text, a diff
\* without a change group; the modified marker only for a file that does
\* not read as text.
C6_DeployedFilesShowNoChange ==
    DeployThenPull =>
        \A s \in Range(shown) : JustDeployed(s) =>
            /\ s.kind # "addition"
            /\ s.kind = "diff" => s.groups = 0
            /\ s.kind = "modified" => ~ReadsAsString(files[s.path])

\* After a deploy, pull showed an empty diff for a deployed text file and the
\* modified marker for a deployed file that is not text.
C6_Witness ==
    /\ DeployThenPull
    /\ \E s \in Range(shown) : JustDeployed(s) /\ s.kind = "diff" /\ s.groups = 0
    /\ \E s \in Range(shown) : JustDeployed(s) /\ s.kind = "modified"

\* C7: deploy without a name visits every configuration, prints the failure
\* of a configuration and goes on with the others, and returns Ok.
C7_BatchDeployContinues ==
    cmd = Command("deploy", None) /\ pc = "exited" =>
        /\ result = Ok
        /\ \A name \in DOMAIN structure : \E a \in Range(attempted) : a.name = name
        /\ \A a \in Range(attempted) :
              a.res # Ok => [name |-> a.name, error |-> a.res] \in Range(reports)

Malformed(pats) == \E i \in 1..Len(pats) : ~GlobNewOk(pats[i])

\* C8: with a malformed exclude pattern in a list that deploy_to or
\* config_pull reads, the call returns an error value, the program is not
\* aborted, and nothing is copied.
C8_MalformedGlobIsAnError ==
    /\ pc = "exited"
    /\ RecognisedOs
    /\ cmd.name = Some(NameC)
    /\ \/ /\ cmd.op = "deploy"
          /\ Malformed(structure[NameC].deploy.exclude \o OwnTarget(structure[NameC]).exclude)
       \/ /\ cmd.op = "pull"
          /\ Malformed(PullPats)
    => /\ result \notin {Panic, Ok}
       /\ copies = <<>>

\* C9: on windows and linux pull reads the source root and the excludes of
\* the PullSpec of that OS, the root being its `from` or else the deploy
\* target of that OS; on another OS it fails before it enumerates anything.
C9_PullReadsOwnSpec ==
    cmd.op = "pull" /\ cmd.name[1] \in DOMAIN structure /\ pc \in {"pull", "exited"} =>
        IF RecognisedOs
        THEN LET config == structure[cmd.name[1]]
                 root == PathAbsNew(Tilde(UnwrapOr(OwnPull(config).from,
                                                   OwnTarget(config).target)))
             IN  /\ \A p \in Range(enumerated) : IsUnder(p, root)
                 /\ \A q \in Range(prompts) :
                       IsUnder(q.path, root) =>
                           ~GlobSetIsMatch(OwnPull(config).exclude, StripPrefix(q.path, root))
        ELSE result = ErrUnsupported /\ enumerated = <<>> /\ copies = <<>>

\* C10: config_delete calls config::delete_config for a name the structure
\* holds, and returns "There is no config with the name" exactly for a name
\* it does not hold.
C10_DeleteOnlyExisting ==
    cmd.op = "delete" /\ pc = "exited" =>
        /\ result = ErrNoSuchName <=> cmd.name[1] \notin DOMAIN structure
        /\ calls # <<>> <=> cmd.name[1] \in DOMAIN structure

\* The directories get_paths_in lists on its way through root.
SubtreeDirs(root) == {d \in dirs : d = root \/ IsUnder(d, root)}

ListingFails(root) == SubtreeDirs(root) \cap unreadable # {}

\* What the claim says get_paths_in(root) returns: an error and nothing when
\* a listing below root fails, else each file below root, once.
ExactOrNothing(root) ==
    LET r == get_paths_in(FileSystem(files, dirs), root, EverythingBelow)
    IN  IF ListingFails(root)
        THEN ~r.ok /\ r.paths = <<>>
        ELSE /\ r.ok
             /\ Range(r.paths) = {f \in DOMAIN files : IsUnder(f, root)}
             /\ Len(r.paths) = Cardinality(Range(r.paths))

\* C11: get_paths_in returns exactly the files found at any depth below the
\* root, and an error without a partial result when the listing of a
\* directory below the root fails; deploy and pull then copy no file.
C11_EnumerationExactOrNothing ==
    /\ \A name \in DOMAIN structure :
          /\ ExactOrNothing(PathAbsNew(name))
          /\ ListingFails(PathAbsNew(name)) =>
                \A a \in Range(attempted) : a.name = name => a.res # Ok /\ a.copies = <<>>
    /\ IsPullOfConfig /\ pc \in {"pull", "exited"} /\ PullRoot \in dirs =>
          /\ ExactOrNothing(PullRoot)
          /\ ListingFails(PullRoot) =>
                enumerated = <<>> /\ prompts = <<>> /\ copies = <<>> /\ result # Ok

====
